---------------------------- MODULE Spec2Model ----------------------------
(***************************************************************************)
(* A model of find-unused.mjs: the Cucumber-Expression compiler, the       *)
(* step-registration extractor, the feature-step extractor and the usage   *)
(* matcher of main().  JavaScript strings are TLA+ strings; a character    *)
(* is a string of length one.  String positions are 1-based inside the     *)
(* helpers; lastIndex values are 0-based as in JavaScript.                 *)
(***************************************************************************)
EXTENDS Integers, Sequences, FiniteSets, TLC

(***************************************************************************)
(* JavaScript string primitives used by the program.                       *)
(***************************************************************************)
Char(s, i) == SubSeq(s, i, i)

DigitChars == {"0", "1", "2", "3", "4", "5", "6", "7", "8", "9"}

LowerSeq == "abcdefghijklmnopqrstuvwxyz"

UpperSeq == "ABCDEFGHIJKLMNOPQRSTUVWXYZ"

LowerChars == {Char(LowerSeq, i) : i \in 1..26}

UpperChars == {Char(UpperSeq, i) : i \in 1..26}

LetterChars == LowerChars \cup UpperChars

WordChars == LetterChars \cup DigitChars \cup {"_"}

\* the characters \s matches (those that occur in the modelled inputs)
SpaceChars == {" ", "\t", "\n", "\r"}

LineTerminators == {"\n", "\r"}

UpperOf == [c \in LowerChars |-> Char(UpperSeq, CHOOSE i \in 1..26 : Char(LowerSeq, i) = c)]

\* Canonicalize of the i flag (ASCII): letters compare by their upper case
Canon(c) == IF c \in LowerChars THEN UpperOf[c] ELSE c

Min(S) == CHOOSE m \in S : \A n \in S : m <= n

Max(S) == CHOOSE m \in S : \A n \in S : m >= n

\* the elements of a finite set of integers in increasing order
RECURSIVE SortedRange(_, _, _)
\* the elements of S in lo..hi in increasing order (by halves)
SortedRange(S, lo, hi) ==
    IF lo > hi THEN <<>>
    ELSE IF lo = hi THEN (IF lo \in S THEN <<lo>> ELSE <<>>)
    ELSE SortedRange(S, lo, (lo + hi) \div 2) \o SortedRange(S, (lo + hi) \div 2 + 1, hi)

SortedSeq(S) == IF S = {} THEN <<>> ELSE SortedRange(S, Min(S), Max(S))

RECURSIVE JoinStr(_, _, _)
\* f[lo] \o ... \o f[hi] for strings (by halves, to keep the evaluation shallow)
JoinStr(f, lo, hi) ==
    IF lo > hi THEN ""
    ELSE IF lo = hi THEN f[lo]
    ELSE LET mid == (lo + hi) \div 2
         IN  JoinStr(f, lo, mid) \o JoinStr(f, mid + 1, hi)

RECURSIVE Flatten(_, _, _)
\* f[lo] \o ... \o f[hi] for sequences: Array.prototype.flat of a list of lists
Flatten(f, lo, hi) ==
    IF lo > hi THEN <<>>
    ELSE IF lo = hi THEN f[lo]
    ELSE LET mid == (lo + hi) \div 2
         IN  Flatten(f, lo, mid) \o Flatten(f, mid + 1, hi)

flat(lists) == Flatten(lists, 1, Len(lists))

\* String.prototype.startsWith at a position
StartsWithAt(s, k, i) ==
    /\ i + Len(k) - 1 <= Len(s)
    /\ SubSeq(s, i, i + Len(k) - 1) = k

startsWith(s, k) == StartsWithAt(s, k, 1)

endsWith(s, k) == Len(k) <= Len(s) /\ SubSeq(s, Len(s) - Len(k) + 1, Len(s)) = k

\* String.prototype.slice(1, -1)
slice1(s) == SubSeq(s, 2, Len(s) - 1)

\* first position >= i of s that holds no whitespace (Len(s)+1 if none)
SkipSpaces(s, i) ==
    Min({j \in i..Len(s) : Char(s, j) \notin SpaceChars} \cup {Len(s) + 1})

\* last position <= i of s that holds no whitespace (0 if none)
LastNonSpace(s, i) ==
    Max({j \in 1..i : Char(s, j) \notin SpaceChars} \cup {0})

\* String.prototype.trim
trim(s) == SubSeq(s, SkipSpaces(s, 1), LastNonSpace(s, Len(s)))

RECURSIVE SplitJoinFrom(_, _, _, _)
SplitJoinFrom(s, k, v, i) ==
    LET occ == {j \in i..(Len(s) - Len(k) + 1) : StartsWithAt(s, k, j)}
    IN  IF occ = {} THEN SubSeq(s, i, Len(s))
        ELSE SubSeq(s, i, Min(occ) - 1) \o v \o SplitJoinFrom(s, k, v, Min(occ) + Len(k))

\* s.split(k).join(v): every non-overlapping occurrence of k, left to right
SplitJoin(s, k, v) == SplitJoinFrom(s, k, v, 1)

\* s.replace(/[<set>]/g, "\\$&"): a backslash before every character of set
EscapeChars(s, set) ==
    JoinStr([i \in 1..Len(s) |->
               IF Char(s, i) \in set THEN "\\" \o Char(s, i) ELSE Char(s, i)],
            1, Len(s))

\* s.replace(/\s+/g, "\\s+"): every maximal run of whitespace becomes \s+
FlexibleWhitespace(s) ==
    JoinStr([i \in 1..Len(s) |->
               IF Char(s, i) \notin SpaceChars THEN Char(s, i)
               ELSE IF i > 1 /\ Char(s, i - 1) \in SpaceChars THEN ""
               ELSE "\\s+"],
            1, Len(s))

(***************************************************************************)
(* cucumberExprToRegex                                                     *)
(***************************************************************************)
\* the backtick character (the only form in which a TLA+ string can hold it)
BT == SubSeq("`'", 1, 1)

\* the parameter-type table, in insertion order
map ==
    << <<"{int}",        "(-?\\d+)">>,
       <<"{float}",      "(-?\\d+(?:[.,]\\d+)?)">>,
       <<"{word}",       "(\\S+)">>,
       <<"{string}",     "\"([^\"]*)\"|'([^']*)'|" \o BT \o "([^" \o BT \o "]*)" \o BT>>,
       <<"{bigint}",     "(-?\\d+)">>,
       <<"{byte}",       "(-?\\d+)">>,
       <<"{short}",      "(-?\\d+)">>,
       <<"{double}",     "(-?\\d+(?:[.,]\\d+)?)">>,
       <<"{biginteger}", "(-?\\d+)">>,
       <<"{uuid}",       "([0-9a-fA-F]{8}-(?:[0-9a-fA-F]{4}-){3}[0-9a-fA-F]{12})">>,
       <<"{any}",        "(.+)">> >>

\* the class of /[.*+?^${}()|[\]\\]/g
special == {".", "*", "+", "?", "^", "$", "{", "}", "(", ")", "|", "[", "]", "\\"}

\* the class of /[-\/\\^$*+?.()|[\]{}]/g
reinsertSpecial ==
    {"-", "/", "\\", "^", "$", "*", "+", "?", ".", "(", ")", "|", "[", "]", "{", "}"}

RECURSIVE SubstituteParams(_, _, _)
\* for (const [k, v] of Object.entries(map)) s = s.split(k).join(v), for the
\* entries lo..hi in order (the loop is split in halves to keep TLC's
\* evaluation shallow; the test on s evaluates it before the second half runs)
SubstituteParams(s, lo, hi) ==
    IF s = "" THEN ""
    ELSE IF lo = hi THEN SplitJoin(s, map[lo][1], map[lo][2])
    ELSE SubstituteParams(SubstituteParams(s, lo, (lo + hi) \div 2),
                          (lo + hi) \div 2 + 1, hi)

\* const escaped = v.replace(/[-\/\\^$*+?.()|[\]{}]/g, "\\$&")
EscapedValue(v) == EscapeChars(v, reinsertSpecial)

RECURSIVE ReinsertGroups(_, _, _)
\* for (const v of Object.values(map)) s = s.split(escaped).join(v), for the
\* entries lo..hi in order
ReinsertGroups(s, lo, hi) ==
    IF s = "" THEN ""
    ELSE IF lo = hi THEN SplitJoin(s, EscapedValue(map[lo][2]), map[lo][2])
    ELSE ReinsertGroups(ReinsertGroups(s, lo, (lo + hi) \div 2),
                        (lo + hi) \div 2 + 1, hi)

cucumberExprToRegex(expr) ==
    LET s1 == SubstituteParams(trim(expr), 1, Len(map))
        s2 == EscapeChars(s1, special)
        s3 == ReinsertGroups(s2, 1, Len(map))
        s4 == FlexibleWhitespace(s3)
    IN  "^" \o s4 \o "$"

(***************************************************************************)
(* new RegExp(source, flags) and RegExp.prototype.test, for the fragment   *)
(* of the pattern language the program's inputs use: characters, escapes,  *)
(* \d \D \s \S \w \W \b \B, classes with ranges, the dot, ^ and $, groups  *)
(* ( ) and (?: ), alternation and the quantifiers * + ? {n} {n,} {n,m},    *)
(* greedy or lazy.  Back-references and look-arounds are not modelled.     *)
(***************************************************************************)
\* printable ASCII in code-point order, for the ranges of a character class
AsciiSeq ==
    " !\"#$%&'()*+,-./0123456789:;<=>?@ABCDEFGHIJKLMNOPQRSTUVWXYZ[\\]^_"
    \o BT \o "abcdefghijklmnopqrstuvwxyz{|}~"

Ord(c) == CHOOSE i \in 1..Len(AsciiSeq) : Char(AsciiSeq, i) = c

RangeChars(lo, hi) == {Char(AsciiSeq, n) : n \in Ord(lo)..Ord(hi)}

RECURSIVE ToNat(_)
ToNat(s) ==
    IF s = "" THEN 0
    ELSE ToNat(SubSeq(s, 1, Len(s) - 1)) * 10 + (Ord(Char(s, Len(s))) - Ord("0"))

HasFlag(flags, c) == \E i \in 1..Len(flags) : Char(flags, i) = c

\* the flags new RegExp accepts: known letters, none twice
ValidFlags(flags) ==
    /\ \A i \in 1..Len(flags) : Char(flags, i) \in {"d", "g", "i", "m", "s", "u", "y"}
    /\ \A i, j \in 1..Len(flags) : Char(flags, i) = Char(flags, j) => i = j

RECURSIVE Escaped(_, _)
\* position i is the second character of an escape: an odd number of
\* backslashes stands immediately before it
Escaped(p, i) ==
    IF i = 1 \/ Char(p, i - 1) # "\\" THEN FALSE ELSE ~Escaped(p, i - 1)

RECURSIVE ClassSpans(_, _)
\* <<open, close>> of every character class of p from position i on
\* (close = 0: the class is not terminated)
ClassSpans(p, i) ==
    LET opens == {j \in i..Len(p) : Char(p, j) = "[" /\ ~Escaped(p, j)}
    IN  IF opens = {} THEN {}
        ELSE LET o == Min(opens)
                 closes == {j \in (o + 1)..Len(p) : Char(p, j) = "]" /\ ~Escaped(p, j)}
             IN  IF closes = {} THEN {<<o, 0>>}
                 ELSE {<<o, Min(closes)>>} \cup ClassSpans(p, Min(closes) + 1)

InClass(spans, i) == \E sp \in spans : sp[1] < i /\ (sp[2] = 0 \/ i <= sp[2])

\* the "}" that closes a quantifier {n}, {n,} or {n,m} opening at j (0: none,
\* and the brace is an ordinary character)
BraceEnd(p, j) ==
    LET closes == {e \in (j + 1)..Len(p) : Char(p, e) = "}"}
        e == Min(closes)
        body == SubSeq(p, j + 1, e - 1)
        commas == {c \in 1..Len(body) : Char(body, c) = ","}
        digitsOnly(lo, hi) == \A q \in lo..hi : Char(body, q) \in DigitChars
    IN  IF closes = {} THEN 0
        ELSE IF /\ Cardinality(commas) <= 1
                /\ commas = {} => (Len(body) >= 1 /\ digitsOnly(1, Len(body)))
                /\ commas # {} => /\ Min(commas) >= 2
                                  /\ digitsOnly(1, Min(commas) - 1)
                                  /\ digitsOnly(Min(commas) + 1, Len(body))
             THEN e ELSE 0

\* the positions of p at which a token of the pattern starts
TokenStarts(p) ==
    LET spans == ClassSpans(p, 1)
        plain == {i \in 1..Len(p) : ~Escaped(p, i) /\ ~InClass(spans, i)}
        heads == {j \in plain : StartsWithAt(p, "(?:", j)}
        braces == {j \in plain : Char(p, j) = "{" /\ BraceEnd(p, j) > 0}
    IN  {i \in plain :
            /\ ~\E j \in heads : j < i /\ i <= j + 2
            /\ ~\E j \in braces : j < i /\ i <= BraceEnd(p, j)}

Tok(kind, neg, chars, min, max, lazyMark) ==
    [k |-> kind, neg |-> neg, chars |-> chars, min |-> min, max |-> max,
     lazyMark |-> lazyMark]

CharTok(neg, chars, flags) ==
    Tok("set", neg, IF HasFlag(flags, "i") THEN {Canon(c) : c \in chars} ELSE chars,
        0, 0, FALSE)

MarkTok(kind) == Tok(kind, FALSE, {}, 0, 0, FALSE)

QuantTok(min, max, lazyMark) == Tok("quant", FALSE, {}, min, max, lazyMark)

\* the characters an escape \c stands for inside or outside a class
EscapeChars1(c) ==
    CASE c = "d" -> DigitChars
      [] c = "s" -> SpaceChars
      [] c = "w" -> WordChars
      [] c = "t" -> {"\t"}
      [] c = "n" -> {"\n"}
      [] c = "r" -> {"\r"}
      [] OTHER   -> {c}

EscapeToken(c, flags) ==
    CASE c = "D" -> CharTok(TRUE, DigitChars, flags)
      [] c = "S" -> CharTok(TRUE, SpaceChars, flags)
      [] c = "W" -> CharTok(TRUE, WordChars, flags)
      [] c = "b" -> MarkTok("wb")
      [] c = "B" -> MarkTok("nwb")
      [] OTHER   -> CharTok(FALSE, EscapeChars1(c), flags)

\* the class [ ... ] whose brackets are at o and e
ClassToken(p, o, e, flags) ==
    LET neg == o + 1 < e /\ Char(p, o + 1) = "^"
        lo == IF neg THEN o + 2 ELSE o + 1
        hi == e - 1
        single(q) == q \in lo..hi /\ ~Escaped(p, q) /\ Char(p, q) # "\\"
        dash(q) == /\ lo < q /\ q < hi /\ Char(p, q) = "-" /\ ~Escaped(p, q)
                   /\ single(q - 1) /\ single(q + 1)
        item(q) == IF Escaped(p, q) THEN EscapeChars1(Char(p, q))
                   ELSE IF Char(p, q) = "\\" THEN {}
                   ELSE IF dash(q) THEN RangeChars(Char(p, q - 1), Char(p, q + 1))
                   ELSE {Char(p, q)}
        bad == \E q \in lo..hi : dash(q) /\ Ord(Char(p, q - 1)) > Ord(Char(p, q + 1))
    IN  IF bad THEN MarkTok("error")
        ELSE CharTok(neg, UNION {item(q) : q \in lo..hi}, flags)

\* the token that starts at position i of p
Token(p, i, flags) ==
    LET c == Char(p, i)
    IN  CASE c = "\\" -> IF i = Len(p) THEN MarkTok("error")
                         ELSE EscapeToken(Char(p, i + 1), flags)
          [] c = "[" -> LET sp == CHOOSE sp \in ClassSpans(p, 1) : sp[1] = i
                        IN  IF sp[2] = 0 THEN MarkTok("error")
                            ELSE ClassToken(p, i, sp[2], flags)
          [] c = "(" -> MarkTok("open")
          [] c = ")" -> MarkTok("close")
          [] c = "|" -> MarkTok("bar")
          [] c = "^" -> MarkTok("bol")
          [] c = "$" -> MarkTok("eol")
          [] c = "." -> IF HasFlag(flags, "s") THEN CharTok(TRUE, {}, flags)
                        ELSE CharTok(TRUE, LineTerminators, flags)
          [] c = "*" -> QuantTok(0, -1, FALSE)
          [] c = "+" -> QuantTok(1, -1, FALSE)
          [] c = "?" -> QuantTok(0, 1, TRUE)
          [] c = "{" /\ BraceEnd(p, i) > 0 ->
                LET body == SubSeq(p, i + 1, BraceEnd(p, i) - 1)
                    commas == {q \in 1..Len(body) : Char(body, q) = ","}
                IN  IF commas = {} THEN QuantTok(ToNat(body), ToNat(body), FALSE)
                    ELSE IF Min(commas) = Len(body)
                         THEN QuantTok(ToNat(SubSeq(body, 1, Len(body) - 1)), -1, FALSE)
                    ELSE QuantTok(ToNat(SubSeq(body, 1, Min(commas) - 1)),
                                  ToNat(SubSeq(body, Min(commas) + 1, Len(body))), FALSE)
          [] OTHER -> CharTok(FALSE, {c}, flags)

Tokens(p, flags) ==
    LET starts == SortedSeq(TokenStarts(p))
    IN  [n \in 1..Len(starts) |-> Token(p, starts[n], flags)] \o <<>>

AtomKinds == {"set", "close"}

\* the SyntaxErrors of the fragment: a dangling backslash, an unterminated
\* class, a range out of order, unbalanced parentheses, nothing to repeat
WellFormed(toks) ==
    LET n == Len(toks)
        opens(t) == Cardinality({u \in 1..t : toks[u].k = "open"})
        closes(t) == Cardinality({u \in 1..t : toks[u].k = "close"})
        quantifies(t) == t > 1 /\ toks[t - 1].k \in AtomKinds
    IN  /\ \A t \in 1..n : toks[t].k # "error"
        /\ \A t \in 1..n : closes(t) <= opens(t)
        /\ closes(n) = opens(n)
        /\ \A t \in 1..n : toks[t].k = "quant" =>
              \/ quantifies(t)
              \/ /\ toks[t].lazyMark /\ t > 1 /\ toks[t - 1].k = "quant"
                 /\ quantifies(t - 1)
        /\ \A t \in 1..n : toks[t].k = "quant" /\ toks[t].max >= 0
                             => toks[t].min <= toks[t].max

RECURSIVE ParseRange(_, _, _)
\* the disjunction that tokens lo..hi spell
ParseRange(toks, lo, hi) ==
    LET depth == [t \in lo..(hi + 1) |->
                    Cardinality({u \in lo..(t - 1) : toks[u].k = "open"})
                    - Cardinality({u \in lo..(t - 1) : toks[u].k = "close"})]
        cuts == SortedSeq({t \in lo..hi : toks[t].k = "bar" /\ depth[t] = 0}
                          \cup {lo - 1, hi + 1})
        Term(t, b) ==
            LET last == IF toks[t].k = "open"
                        THEN Min({u \in (t + 1)..b : toks[u].k = "close" /\ depth[u] = 1})
                        ELSE t
                atom == IF toks[t].k = "open" THEN ParseRange(toks, t + 1, last - 1)
                        ELSE toks[t]
                q == last + 1
            IN  IF q <= b /\ toks[q].k = "quant"
                THEN [k |-> "rep", x |-> atom, min |-> toks[q].min, max |-> toks[q].max,
                      greedy |-> ~(q + 1 <= b /\ toks[q + 1].k = "quant")]
                ELSE atom
        Alternative(a, b) ==
            LET starts == SortedSeq({t \in a..b : depth[t] = 0
                                        /\ toks[t].k \notin {"quant", "close"}})
            IN  [k |-> "seq", xs |-> [n \in 1..Len(starts) |-> Term(starts[n], b)]]
    IN  [k |-> "alt",
         xs |-> [n \in 1..(Len(cuts) - 1) |-> Alternative(cuts[n] + 1, cuts[n + 1] - 1)]]

IsWordAt(text, i) == i >= 1 /\ i <= Len(text) /\ Char(text, i) \in WordChars

SetMatches(node, c, ic) == ((IF ic THEN Canon(c) ELSE c) \in node.chars) # node.neg

RECURSIVE M(_, _, _, _)
RECURSIVE MSeq(_, _, _, _, _, _)
RECURSIVE MRep(_, _, _, _, _)

\* the end positions of the matches of node at position i of text, in the
\* order in which backtracking tries them
M(node, text, i, flags) ==
    CASE node.k = "set" ->
            IF i <= Len(text) /\ SetMatches(node, Char(text, i), HasFlag(flags, "i"))
            THEN <<i + 1>> ELSE <<>>
      [] node.k = "bol" ->
            IF i = 1 \/ (HasFlag(flags, "m") /\ Char(text, i - 1) \in LineTerminators)
            THEN <<i>> ELSE <<>>
      [] node.k = "eol" ->
            IF \/ i = Len(text) + 1
               \/ (HasFlag(flags, "m") /\ Char(text, i) \in LineTerminators)
            THEN <<i>> ELSE <<>>
      [] node.k = "wb" ->
            IF IsWordAt(text, i - 1) # IsWordAt(text, i) THEN <<i>> ELSE <<>>
      [] node.k = "nwb" ->
            IF IsWordAt(text, i - 1) = IsWordAt(text, i) THEN <<i>> ELSE <<>>
      [] node.k = "alt" ->
            Flatten([n \in 1..Len(node.xs) |-> M(node.xs[n], text, i, flags)],
                    1, Len(node.xs))
      [] node.k = "seq" -> MSeq(node.xs, 1, Len(node.xs), text, i, flags)
      [] node.k = "rep" ->
            IF node.x.k = "set"
            THEN LET ic == HasFlag(flags, "i")
                     stop == Min({j \in i..Len(text) : ~SetMatches(node.x, Char(text, j), ic)}
                                 \cup {Len(text) + 1})
                     most == IF node.max >= 0 /\ stop - i > node.max
                             THEN node.max ELSE stop - i
                     count == most - node.min + 1
                 IN  IF most < node.min THEN <<>>
                     ELSE IF node.greedy
                          THEN [n \in 1..count |-> i + most - (n - 1)]
                          ELSE [n \in 1..count |-> i + node.min + (n - 1)]
            ELSE MRep(node, text, i, 0, flags)

\* the terms xs[lo..hi] one after the other, from position i
MSeq(xs, lo, hi, text, i, flags) ==
    IF lo > hi THEN <<i>>
    ELSE IF lo = hi THEN M(xs[lo], text, i, flags)
    ELSE LET mid == (lo + hi) \div 2
             left == MSeq(xs, lo, mid, text, i, flags)
         IN  Flatten([n \in 1..Len(left) |-> MSeq(xs, mid + 1, hi, text, left[n], flags)],
                     1, Len(left))

\* the repetition node after done iterations, at position i
MRep(node, text, i, done, flags) ==
    LET iter == IF node.max >= 0 /\ done >= node.max THEN <<>>
                ELSE M(node.x, text, i, flags)
        more == Flatten([n \in 1..Len(iter) |->
                           IF iter[n] = i /\ done >= node.min THEN <<>>
                           ELSE MRep(node, text, iter[n], done + 1, flags)],
                        1, Len(iter))
    IN  IF done < node.min THEN more
        ELSE IF node.greedy THEN more \o <<i>>
        ELSE <<i>> \o more

\* the value of a failed construction (tryBuildRegExp's null)
NoRegExp == [ok |-> FALSE, source |-> "", flags |-> "", ast |-> <<>>, lastIndex |-> 0]

\* new RegExp(source, flags); a SyntaxError gives NoRegExp
NewRegExp(source, flags) ==
    LET toks == Tokens(source, flags)
    IN  IF ValidFlags(flags) /\ WellFormed(toks)
        THEN [ok |-> TRUE, source |-> source, flags |-> flags,
              ast |-> ParseRange(toks, 1, Len(toks)), lastIndex |-> 0]
        ELSE NoRegExp

\* RegExp.prototype.test: <<result, the object with its lastIndex updated>>
RegExpTest(re, text) ==
    LET stateful == HasFlag(re.flags, "g") \/ HasFlag(re.flags, "y")
        from == IF stateful THEN re.lastIndex ELSE 0
        tries == IF from > Len(text) THEN {}
                 ELSE IF HasFlag(re.flags, "y") THEN {from + 1}
                 ELSE (from + 1)..(Len(text) + 1)
        hits == {q \in tries : M(re.ast, text, q, re.flags) # <<>>}
    IN  IF hits = {}
        THEN <<FALSE, IF stateful THEN [re EXCEPT !.lastIndex = 0] ELSE re>>
        ELSE <<TRUE, IF stateful
                     THEN [re EXCEPT !.lastIndex =
                              M(re.ast, text, Min(hits), re.flags)[1] - 1]
                     ELSE re>>

(***************************************************************************)
(* Step extraction                                                         *)
(***************************************************************************)
\* extractRegexLiteral: lit.match(/^\/(.+)\/([a-z]*)$/i).  The greedy (.+)
\* ends at the last "/" of lit, which only letters may follow.
extractRegexLiteral(lit) ==
    LET slashes == {j \in 1..Len(lit) : Char(lit, j) = "/"}
        last == Max(slashes)
    IN  IF /\ startsWith(lit, "/")
           /\ last >= 3
           /\ \A j \in (last + 1)..Len(lit) : Char(lit, j) \in LetterChars
           /\ \A j \in 2..(last - 1) : Char(lit, j) \notin LineTerminators
        THEN [ok |-> TRUE, source |-> SubSeq(lit, 2, last - 1),
              flags |-> SubSeq(lit, last + 1, Len(lit))]
        ELSE [ok |-> FALSE, source |-> "", flags |-> ""]

\* tryBuildRegExp: new RegExp, null when it throws
tryBuildRegExp(pattern, flags) == NewRegExp(pattern, flags)

\* the alternation Given|When|Then|And|But|defineStep of STEP_CALL_RE
StepKeywords == <<"Given", "When", "Then", "And", "But", "defineStep">>

\* the characters a keyword starts with
KeywordInitials == {Char(StepKeywords[n], 1) : n \in 1..Len(StepKeywords)}

NoMatch == [found |-> FALSE, m1 |-> "", end |-> 0]

\* STEP_CALL_RE tried at position q of src:
\*   \b keyword \s* \( \s* ([^,]+) \s* ,
\* The greedy [^,]+ runs to the first comma, so m[1] is everything between
\* the argument's start and that comma; when the comma follows the opening
\* whitespace directly, \s* gives its last character back to the group.
StepCallAt(src, q) ==
    LET kws == {n \in 1..Len(StepKeywords) : StartsWithAt(src, StepKeywords[n], q)}
        paren == SkipSpaces(src, q + Len(StepKeywords[Min(kws)]))
        arg == SkipSpaces(src, paren + 1)
        commas == {c \in arg..Len(src) : Char(src, c) = ","}
    IN  IF kws = {} \/ IsWordAt(src, q - 1) THEN NoMatch
        ELSE IF paren > Len(src) \/ Char(src, paren) # "(" THEN NoMatch
        ELSE IF commas = {} THEN NoMatch
        ELSE IF Min(commas) > arg
             THEN [found |-> TRUE, m1 |-> SubSeq(src, arg, Min(commas) - 1),
                   end |-> Min(commas)]
        ELSE IF arg > paren + 1
             THEN [found |-> TRUE, m1 |-> Char(src, arg - 1), end |-> arg]
        ELSE NoMatch

\* the positions of src at which STEP_CALL_RE matches
CallStarts(src) ==
    {q \in 1..Len(src) : Char(src, q) \in KeywordInitials /\ StepCallAt(src, q).found}

\* STEP_CALL_RE.exec(src) with the g flag: the leftmost match at or after
\* lastIndex, starts being CallStarts(src); lastIndex moves past the match,
\* or back to 0 when none is found
STEP_CALL_RE_exec(src, starts, lastIndex) ==
    LET hits == {q \in starts : q > lastIndex}
        hit == StepCallAt(src, Min(hits))
    IN  IF hits = {} THEN [found |-> FALSE, m1 |-> "", lastIndex |-> 0]
        ELSE [found |-> TRUE, m1 |-> hit.m1, lastIndex |-> hit.end]

\* raw.split(/\s/)[0]
FirstToken(raw) ==
    SubSeq(raw, 1, Min({j \in 1..Len(raw) : Char(raw, j) \in SpaceChars}
                       \cup {Len(raw) + 1}) - 1)

Pattern(file, type, raw, regexp) ==
    [file |-> file, type |-> type, raw |-> raw, regexp |-> regexp]

\* the body of the while loop: what one registration pushes onto patterns
PushedFor(m1, file) ==
    LET raw == trim(m1)
        lit == FirstToken(raw)
        r == extractRegexLiteral(lit)
        re == tryBuildRegExp(r.source, r.flags)
        inner == slice1(raw)
        exprRe == tryBuildRegExp(cucumberExprToRegex(inner), "i")
    IN  IF startsWith(raw, "/")
        THEN IF r.ok /\ re.ok THEN <<Pattern(file, "regex", lit, re)>> ELSE <<>>
        ELSE IF \/ (startsWith(raw, "'") /\ endsWith(raw, "'"))
                \/ (startsWith(raw, "\"") /\ endsWith(raw, "\""))
                \/ (startsWith(raw, BT) /\ endsWith(raw, BT))
             THEN IF exprRe.ok THEN <<Pattern(file, "expr", inner, exprRe)>> ELSE <<>>
        ELSE <<Pattern(file, "unparsed", raw, NoRegExp)>>

\* a variant of the loop that calls exec once ("if" in place of "while"):
\* it returns with STEP_CALL_RE.lastIndex behind the first registration
ExecOnce(src, lastIndex) ==
    LET m == STEP_CALL_RE_exec(src, CallStarts(src), lastIndex)
    IN  IF ~m.found THEN [m1s |-> <<>>, lastIndex |-> m.lastIndex]
        ELSE [m1s |-> <<m.m1>>, lastIndex |-> m.lastIndex]

RECURSIVE ExecFrom(_, _, _)
\* the iterations of the while loop from lastIndex on
ExecFrom(src, starts, lastIndex) ==
    LET m == STEP_CALL_RE_exec(src, starts, lastIndex)
        rest == ExecFrom(src, starts, m.lastIndex)
    IN  IF ~m.found THEN [m1s |-> <<>>, lastIndex |-> m.lastIndex]
        ELSE [m1s |-> <<m.m1>> \o rest.m1s, lastIndex |-> rest.lastIndex]

\* while ((m = STEP_CALL_RE.exec(src)) !== null) { ... }, entered with the
\* shared regex's lastIndex: the m[1] of every iteration, and the lastIndex
\* the loop leaves behind
ExecLoop(src, lastIndex) == ExecFrom(src, CallStarts(src), lastIndex)

\* the patterns of one file and the lastIndex STEP_CALL_RE is left with
extractStepPatternsFromSource(src, file, lastIndex) ==
    LET loop == ExecLoop(src, lastIndex)
    IN  [patterns |-> Flatten([n \in 1..Len(loop.m1s) |-> PushedFor(loop.m1s[n], file)],
                              1, Len(loop.m1s)),
         lastIndex |-> loop.lastIndex]

(***************************************************************************)
(* Feature scanning                                                        *)
(***************************************************************************)
FeatureKeywords == <<"Given", "When", "Then", "And", "But">>

CanonStr(s) == JoinStr([i \in 1..Len(s) |-> Canon(Char(s, i))], 1, Len(s))

\* featureText.split(/\r?\n/)
SplitLines(text) ==
    LET cuts == SortedSeq({j \in 1..Len(text) : Char(text, j) = "\n"}
                          \cup {0, Len(text) + 1})
        stop(n) == IF /\ cuts[n + 1] <= Len(text) /\ cuts[n + 1] > cuts[n] + 1
                      /\ Char(text, cuts[n + 1] - 1) = "\r"
                   THEN cuts[n + 1] - 2 ELSE cuts[n + 1] - 1
    IN  [n \in 1..(Len(cuts) - 1) |-> SubSeq(text, cuts[n] + 1, stop(n))]

\* what one line adds to steps: nothing for a comment (/^\s*#/) or a line
\* FEATURE_STEP_RE = /^\s*(?:Given|When|Then|And|But)\s+(.*\S)\s*$/i does
\* not match, else m[1].trim()
StepOfLine(line) ==
    LET t == SkipSpaces(line, 1)
        kws == {n \in 1..Len(FeatureKeywords) :
                   /\ t + Len(FeatureKeywords[n]) - 1 <= Len(line)
                   /\ CanonStr(SubSeq(line, t, t + Len(FeatureKeywords[n]) - 1))
                        = CanonStr(FeatureKeywords[n])}
        after == t + Len(FeatureKeywords[Min(kws)])
        a == SkipSpaces(line, after)
        z == LastNonSpace(line, Len(line))
    IN  IF t <= Len(line) /\ Char(line, t) = "#" THEN <<>>
        ELSE IF kws = {} THEN <<>>
        ELSE IF a = after \/ a > z THEN <<>>
        ELSE IF \E j \in a..z : Char(line, j) \in LineTerminators THEN <<>>
        ELSE <<trim(SubSeq(line, a, z))>>

extractFeatureSteps(featureText) ==
    LET lines == SplitLines(featureText)
    IN  Flatten([n \in 1..Len(lines) |-> StepOfLine(lines[n])], 1, Len(lines))

(***************************************************************************)
(* main: matching and the report                                           *)
(***************************************************************************)
RECURSIVE everyStep(_, _, _)
\* a variant of the match that goes on testing after a success
\* (featureCache.every): a later test starts at the lastIndex an earlier
\* success left in the regexp object
everyStep(re, featureCache, n) ==
    IF n > Len(featureCache) THEN <<TRUE, re>>
    ELSE LET r == RegExpTest(re, featureCache[n])
         IN  IF ~r[1] THEN r ELSE everyStep(r[2], featureCache, n + 1)

RECURSIVE some(_, _, _)
\* featureCache.some((step) => p.regexp.test(step)) from element n on:
\* <<result, the regexp object afterwards>>
some(re, featureCache, n) ==
    IF n > Len(featureCache) THEN <<FALSE, re>>
    ELSE LET r == RegExpTest(re, featureCache[n])
         IN  IF r[1] THEN r ELSE some(r[2], featureCache, n + 1)

UsageEntry(p, re, used) ==
    [file |-> p.file, type |-> p.type, raw |-> p.raw, regexp |-> re, used |-> used]

\* the callback of allPatterns.map; used is "true", "false" or "null"
UsageOf(p, featureCache) ==
    LET r == some(p.regexp, featureCache, 1)
    IN  IF ~p.regexp.ok THEN UsageEntry(p, p.regexp, "null")
        ELSE UsageEntry(p, r[2], IF r[1] THEN "true" ELSE "false")

MatchAll(patterns, featureCache) ==
    [n \in 1..Len(patterns) |-> UsageOf(patterns[n], featureCache)]

IsUnused(u) == u.used = "false"

IsParsed(u) == u.used # "null"

IsSkipped(u) == u.used = "null"

\* the numbers and the lists main prints
ReportOf(nStepFiles, nFeatureFiles, usg) ==
    [stepFiles |-> nStepFiles,
     featureFiles |-> nFeatureFiles,
     parsed |-> Len(SelectSeq(usg, IsParsed)),
     unused |-> SelectSeq(usg, IsUnused),
     skipped |-> SelectSeq(usg, IsSkipped)]

(***************************************************************************)
(* The inputs the model runs the program on                                *)
(***************************************************************************)
MaxStepFiles == 2

MaxFeatureFiles == 1

\* the end-to-end step file of the specification
StepSourceA ==
    "Given(\"I do {int} things\", fn);\n"
    \o "When(/^I click (.+)$/i, fn);\n"
    \o "Then(\"I navigate to the {word} page\", fn);\n"

\* regex literals (a stateful flag, no space, an unbalanced group, spaces),
\* first arguments that are no static literal, a sticky regex and {string}
StepSourceB ==
    "When(/click|things/g, fn);\n"
    \o "Then(/^I\\s+have\\s+(\\d+)\\s+items$/, fn);\n"
    \o "Given(/^I(click$/, fn);\n"
    \o "Given(/^I have (\\d+) items$/, fn);\n"
    \o "Given(stepName, fn);\n"
    \o "When(\"a\" + \"b\", fn);\n"
    \o "Then(" \o BT \o "I see ${thing}" \o BT \o ", fn);\n"
    \o "But(/it/y, fn);\n"
    \o "And(\"I see {string}\", fn);\n"

\* what read() resolves to for a step file ("" for an unreadable one)
StepSources == {"", StepSourceA, StepSourceB}

\* the end-to-end scenario file of the specification
FeatureSourceA ==
    "Feature: things\n  Scenario: doing\n    Given I do 5 things\n"
    \o "    When I click submit\n"

FeatureSourceB ==
    "# Given a comment\r\n  Then I have 3 items\r\n  but it's a 'click' here\r\n"

FeatureSources == {"", FeatureSourceA, FeatureSourceB}

\* a valid instance of each parameter type, in the order of map
Instances ==
    <<"42", "3.14", "banana", "\"hello\"", "12345678901", "7", "300", "2.5",
      "98765432100", "123e4567-e89b-12d3-a456-426614174000", "whatever you like">>

\* an otherwise-literal expression, or step text, around x
Template(x) == "I wait for " \o x \o " seconds"

\* the Cucumber Expressions the compiler is run on
Expressions ==
    {Template(map[n][1]) : n \in 1..Len(map)}
        \cup {"I see {string}", "I see (.+) here", "I see (\\S+) here",
              "How much (approx.)?"}

\* the step texts the compiled matchers are run on
StepTexts ==
    {Template(Instances[n]) : n \in 1..Len(Instances)}
        \cup {"I see \"x\"", "we use 'x' here", "I see anything here",
              "I see (.+) here", "I see (\\S+) here", "i  SEE (.+) here",
              "How much (approx.)?", "How much approxx"}

(***************************************************************************)
(* main as a state machine.  The two globs have resolved; every step file  *)
(* has a read in flight.  A read that completes resolves to the file's     *)
(* text and runs its continuation, extractStepPatternsFromSource, to the   *)
(* end (JavaScript runs a callback to completion); Promise.all keeps each  *)
(* result in its file's slot.                                              *)
(***************************************************************************)
VARIABLES
    stepTexts,      \* per step file, what read(f) has resolved to
    featureTexts,   \* per feature file, what read(f) has resolved to
    pc,             \* "steps", "features", "done" ("idle": main is not run)
    stepPending,    \* step files whose read has not completed
    stepResults,    \* the slots of the first Promise.all
    lastIndex,      \* STEP_CALL_RE.lastIndex
    featPending,    \* feature files whose read has not completed
    allPatterns,
    featureSteps,
    usage,
    report,
    cpc,            \* the compiler on its own: "expr", "compiled", "tested"
    cExpr,          \* a Cucumber Expression
    cText,          \* a scenario step text
    cRegexp,        \* tryBuildRegExp(cucumberExprToRegex(cExpr), "i")
    cAccepted       \* cRegexp.test(cText)

mainVars == <<stepTexts, featureTexts, pc, stepPending, stepResults, lastIndex,
              featPending, allPatterns, featureSteps, usage, report>>

compilerVars == <<cpc, cExpr, cText, cRegexp, cAccepted>>

vars == <<mainVars, compilerVars>>

NoReport == ReportOf(0, 0, <<>>)

MainIdle ==
    /\ stepTexts = <<>> /\ featureTexts = <<>> /\ pc = "idle"
    /\ stepPending = {} /\ stepResults = <<>> /\ lastIndex = 0
    /\ featPending = {} /\ allPatterns = <<>> /\ featureSteps = <<>>
    /\ usage = <<>> /\ report = NoReport

CompilerIdle ==
    /\ cpc = "idle" /\ cExpr = "" /\ cText = "" /\ cRegexp = NoRegExp
    /\ cAccepted = FALSE

\* n files, none of them read
Unread(n) == [i \in 1..n |-> ""]

Init ==
    /\ stepTexts \in {Unread(n) : n \in 0..MaxStepFiles}
    /\ featureTexts \in {Unread(n) : n \in 0..MaxFeatureFiles}
    /\ pc = "steps"
    /\ stepPending = DOMAIN stepTexts
    /\ stepResults = [i \in DOMAIN stepTexts |-> <<>>]
    /\ lastIndex = 0
    /\ featPending = {}
    /\ allPatterns = <<>>
    /\ featureSteps = <<>>
    /\ usage = <<>>
    /\ report = NoReport
    /\ CompilerIdle

\* the read of step file i completes with text:
\* extractStepPatternsFromSource(await read(f), f)
StepFileRead(i, text) ==
    /\ pc = "steps"
    /\ i \in stepPending
    /\ stepTexts' = [stepTexts EXCEPT ![i] = text]
    /\ LET r == extractStepPatternsFromSource(text, i, lastIndex)
       IN  /\ stepResults' = [stepResults EXCEPT ![i] = r.patterns]
           /\ lastIndex' = r.lastIndex
    /\ stepPending' = stepPending \ {i}
    /\ UNCHANGED <<featureTexts, pc, featPending, allPatterns,
                   featureSteps, usage, report, compilerVars>>

\* the first Promise.all resolves: .flat(), then the feature reads are issued
StepsRead ==
    /\ pc = "steps"
    /\ stepPending = {}
    /\ allPatterns' = flat(stepResults)
    /\ featPending' = DOMAIN featureTexts
    /\ pc' = "features"
    /\ UNCHANGED <<stepTexts, featureTexts, stepPending, stepResults, lastIndex,
                   featureSteps, usage, report, compilerVars>>

\* the read of feature file j completes with text
FeatureFileRead(j, text) ==
    /\ pc = "features"
    /\ j \in featPending
    /\ featureTexts' = [featureTexts EXCEPT ![j] = text]
    /\ featPending' = featPending \ {j}
    /\ UNCHANGED <<stepTexts, pc, stepPending, stepResults, lastIndex,
                   allPatterns, featureSteps, usage, report, compilerVars>>

\* the second Promise.all resolves: flatMap(extractFeatureSteps), the match
\* and the report
MatchAndReport ==
    /\ pc = "features"
    /\ featPending = {}
    /\ LET steps == Flatten([j \in DOMAIN featureTexts |->
                               extractFeatureSteps(featureTexts[j])],
                            1, Len(featureTexts))
           usg == MatchAll(allPatterns, steps)
       IN  /\ featureSteps' = steps
           /\ usage' = usg
           /\ report' = ReportOf(Len(stepTexts), Len(featureTexts), usg)
    /\ pc' = "done"
    /\ UNCHANGED <<stepTexts, featureTexts, stepPending, stepResults, lastIndex,
                   featPending, allPatterns, compilerVars>>

Next ==
    \/ \E i \in DOMAIN stepTexts, text \in StepSources : StepFileRead(i, text)
    \/ StepsRead
    \/ \E j \in DOMAIN featureTexts, text \in FeatureSources : FeatureFileRead(j, text)
    \/ MatchAndReport

Spec == Init /\ [][Next]_vars

(***************************************************************************)
(* The compiler on its own: one Cucumber Expression is compiled as the     *)
(* string branch of extractStepPatternsFromSource compiles it, and the     *)
(* matcher is run on one step text as main runs it.                        *)
(***************************************************************************)
InitCompile ==
    /\ MainIdle
    /\ cpc = "expr"
    /\ cExpr \in Expressions
    /\ cText \in StepTexts
    /\ cRegexp = NoRegExp
    /\ cAccepted = FALSE

\* const reSrc = cucumberExprToRegex(inner); const re = tryBuildRegExp(reSrc, "i")
Compile ==
    /\ cpc = "expr"
    /\ cRegexp' = tryBuildRegExp(cucumberExprToRegex(cExpr), "i")
    /\ cpc' = "compiled"
    /\ UNCHANGED <<cExpr, cText, cAccepted, mainVars>>

\* p.regexp.test(step), for a pattern that has a regexp
TestStep ==
    /\ cpc = "compiled"
    /\ cRegexp.ok
    /\ LET r == RegExpTest(cRegexp, cText)
       IN  /\ cAccepted' = r[1]
           /\ cRegexp' = r[2]
    /\ cpc' = "tested"
    /\ UNCHANGED <<cExpr, cText, mainVars>>

NextCompile ==
    \/ Compile
    \/ TestStep

SpecCompile == InitCompile /\ [][NextCompile]_vars

(***************************************************************************)
(* What the properties below speak of                                      *)
(***************************************************************************)
\* the regexp matches text as a whole: a match that starts at the first
\* character ends behind the last one
FullMatch(re, text) ==
    LET ends == M(re.ast, text, 1, re.flags)
    IN  \E k \in 1..Len(ends) : ends[k] = Len(text) + 1

\* expr holds a recognized parameter token
HasToken(expr) ==
    \E n \in 1..Len(map) : \E i \in 1..Len(expr) : StartsWithAt(expr, map[n][1], i)

\* text is the literal text of expr, up to the length of the runs of
\* whitespace and the case of the letters
SameLiteralText(text, expr) ==
    CanonStr(FlexibleWhitespace(text)) = CanonStr(FlexibleWhitespace(trim(expr)))

\* the first arguments of the registrations of src, in source order, trimmed
FirstArguments(src) ==
    LET m1s == ExecLoop(src, 0).m1s
    IN  [n \in 1..Len(m1s) |-> trim(m1s[n])]

\* arg is a regex literal /<body>/<flags>
IsRegexLiteral(arg) == startsWith(arg, "/") /\ extractRegexLiteral(arg).ok

\* arg is a bare identifier
IsIdentifier(arg) ==
    /\ arg # ""
    /\ Char(arg, 1) \notin DigitChars
    /\ \A i \in 1..Len(arg) : Char(arg, i) \in WordChars \cup {"$"}

\* arg is a template literal with an interpolation
IsInterpolated(arg) ==
    /\ startsWith(arg, BT) /\ endsWith(arg, BT)
    /\ \E i \in 1..Len(arg) : StartsWithAt(arg, "${", i)

\* arg is a string literal followed by more: the quote it opens with closes
\* before the end of the argument
IsConcatenation(arg) ==
    \E q \in {"\"", "'"} :
        /\ startsWith(arg, q)
        /\ \E i \in 2..(Len(arg) - 1) : Char(arg, i) = q

NotStaticLiteral(arg) == IsIdentifier(arg) \/ IsInterpolated(arg) \/ IsConcatenation(arg)

\* the entries of usage that come from step file i
UsageOfFile(i) == {n \in DOMAIN usage : usage[n].file = i}

RECURSIVE ConcatTo(_, _)
\* lists[1] \o ... \o lists[n]
ConcatTo(lists, n) == IF n = 0 THEN <<>> ELSE ConcatTo(lists, n - 1) \o lists[n]

RECURSIVE OccurInOrder(_, _, _, _)
\* the raw texts of ps[n..] occur in src one after the other from position from
OccurInOrder(src, ps, n, from) ==
    IF n > Len(ps) THEN TRUE
    ELSE LET occ == {q \in from..Len(src) : StartsWithAt(src, ps[n].raw, q)}
         IN  /\ occ # {}
             /\ OccurInOrder(src, ps, n + 1, Min(occ) + Len(ps[n].raw))

\* steps in the order perm
Reordered(steps, perm) == [k \in DOMAIN steps |-> steps[perm[k]]]

(***************************************************************************)
(* Properties of the compiler (under SpecCompile)                          *)
(***************************************************************************)
\* C1: for every recognized parameter token, the matcher compiled from the
\* otherwise-literal expression "I wait for <token> seconds" accepts the step
\* text in which the token is replaced by a valid instance of its type.
C1_TokenAcceptsInstance ==
    \A n \in 1..Len(map) :
        (/\ cpc = "tested"
         /\ cExpr = Template(map[n][1])
         /\ cText = Template(Instances[n]))
            => cAccepted

\* C5: the matcher compiled from a Cucumber Expression accepts a step text
\* only if the text matches from its first to its last character; it never
\* accepts on a prefix, a suffix or an inner substring.
C5_AcceptsOnlyWholeText ==
    (cpc = "tested" /\ cAccepted) => FullMatch(cRegexp, cText)

\* C6: regex metacharacters written as literal text match only themselves:
\* an expression without parameter tokens accepts only its own text (up to
\* whitespace runs and letter case).
C6_LiteralTextMatchesItself ==
    (cpc = "tested" /\ ~HasToken(cExpr) /\ cAccepted)
        => SameLiteralText(cText, cExpr)

(***************************************************************************)
(* Properties of the run (under Spec)                                      *)
(***************************************************************************)
\* C2: every registration whose first argument is a regex literal
\* /<body>/<flags> that compiles, bodies with spaces included, yields a
\* pattern of type regex whose matcher has exactly <body> as source and
\* <flags> as flags.
C2_RegexLiteralKept ==
    pc = "done" =>
        \A i \in DOMAIN stepTexts :
            LET args == FirstArguments(stepTexts[i])
            IN  \A a \in 1..Len(args) :
                    LET r == extractRegexLiteral(args[a])
                    IN  (IsRegexLiteral(args[a]) /\ NewRegExp(r.source, r.flags).ok)
                            => \E n \in UsageOfFile(i) :
                                   /\ usage[n].type = "regex"
                                   /\ usage[n].raw = args[a]
                                   /\ usage[n].regexp.source = r.source
                                   /\ usage[n].regexp.flags = r.flags

\* C3: a registration whose first argument is a regex literal that does not
\* compile appears in the report as one pattern with usage Unknown
\* (used = null, counted as unparsed); it is never omitted.
C3_MalformedRegexReported ==
    pc = "done" =>
        \A i \in DOMAIN stepTexts :
            LET args == FirstArguments(stepTexts[i])
            IN  \A a \in 1..Len(args) :
                    LET r == extractRegexLiteral(args[a])
                    IN  (IsRegexLiteral(args[a]) /\ ~NewRegExp(r.source, r.flags).ok)
                            => /\ \E n \in UsageOfFile(i) :
                                      usage[n].raw = args[a] /\ usage[n].used = "null"
                               /\ \E k \in 1..Len(report.skipped) :
                                      /\ report.skipped[k].file = i
                                      /\ report.skipped[k].raw = args[a]

\* C4: every registration whose first argument is not a static literal (a
\* bare identifier, a string concatenation, a template literal with an
\* interpolation) yields one pattern of type unparsed, without matcher, with
\* used = null.
C4_NonLiteralIsUnparsed ==
    pc = "done" =>
        \A i \in DOMAIN stepTexts :
            LET args == FirstArguments(stepTexts[i])
            IN  \A a \in 1..Len(args) :
                    NotStaticLiteral(args[a])
                        => \E n \in UsageOfFile(i) :
                               /\ usage[n].type = "unparsed"
                               /\ usage[n].raw = args[a]
                               /\ ~usage[n].regexp.ok
                               /\ usage[n].used = "null"

\* C7: after matching, a pattern with a matcher is Used iff at least one
\* scenario step text is accepted by the matcher as a full match, and Unused
\* otherwise; a pattern is Unknown iff it has no matcher.
C7_UsedIffFullMatch ==
    pc = "done" =>
        \A n \in DOMAIN usage :
            LET re == allPatterns[n].regexp
                accepted == \E k \in DOMAIN featureSteps : FullMatch(re, featureSteps[k])
            IN  /\ (usage[n].used = "null") <=> ~re.ok
                /\ re.ok => usage[n].used = (IF accepted THEN "true" ELSE "false")

\* C8: for the step file with "I do {int} things", /^I click (.+)$/i and
\* "I navigate to the {word} page" and the scenario file with the steps
\* "I do 5 things" and "I click submit", the report shows 3 parsed patterns,
\* 1 unused pattern ("I navigate to the {word} page") and 0 unparsed.
C8_EndToEndReport ==
    (/\ pc = "done"
     /\ stepTexts = <<StepSourceA>>
     /\ featureTexts = <<FeatureSourceA>>)
        => /\ report.parsed = 3
           /\ Len(report.unused) = 1
           /\ report.unused[1].raw = "I navigate to the {word} page"
           /\ Len(report.skipped) = 0

\* C9: the usage value of every pattern is the same for every ordering of the
\* scenario step list, patterns with the g or y flag (whose test reads and
\* writes lastIndex) included: it is Used exactly when some step is accepted
\* by a test that starts with lastIndex 0, whatever was tested before.
C9_UsageOrderIndependent ==
    pc = "done" =>
        \A n \in DOMAIN allPatterns :
            /\ \A perm \in Permutations(DOMAIN featureSteps) :
                   UsageOf(allPatterns[n], Reordered(featureSteps, perm)).used
                       = usage[n].used
            /\ allPatterns[n].regexp.ok =>
                   (usage[n].used = "true"
                       <=> \E k \in DOMAIN featureSteps :
                               RegExpTest(allPatterns[n].regexp, featureSteps[k])[1])

\* C9 happens: the run is over, a g pattern and a y pattern are Used, each
\* after a test that failed on the first of several steps, and the successful
\* test has written their lastIndex
C9_Witness ==
    /\ pc = "done"
    /\ Len(featureSteps) >= 2
    /\ \E n \in DOMAIN usage, m \in DOMAIN usage :
           /\ HasFlag(usage[n].regexp.flags, "g") /\ usage[n].used = "true"
           /\ usage[n].regexp.lastIndex > 0
           /\ HasFlag(usage[m].regexp.flags, "y") /\ usage[m].used = "true"
           /\ usage[m].regexp.lastIndex > 0
           /\ ~RegExpTest(allPatterns[m].regexp, featureSteps[1])[1]

\* C10: whatever the order in which the reads complete, STEP_CALL_RE.lastIndex
\* is 0 whenever extractStepPatternsFromSource is entered, so each file's list
\* is the one its text alone gives, in source occurrence order; the combined
\* list is the per-file lists concatenated in step-file order.
C10_ExtractionIndependent ==
    /\ lastIndex = 0
    /\ pc = "steps" =>
           \A i \in DOMAIN stepTexts \ stepPending :
               /\ stepResults[i]
                      = extractStepPatternsFromSource(stepTexts[i], i, 0).patterns
               /\ OccurInOrder(stepTexts[i], stepResults[i], 1, 1)
    /\ \A i, j \in DOMAIN stepTexts \ stepPending :
           stepTexts[i] = stepTexts[j] =>
               /\ Len(stepResults[i]) = Len(stepResults[j])
               /\ \A n \in DOMAIN stepResults[i] :
                      [stepResults[i][n] EXCEPT !.file = j] = stepResults[j][n]
    /\ pc \in {"features", "done"} =>
           /\ allPatterns = ConcatTo(stepResults, Len(stepResults))
           /\ \A a, b \in DOMAIN allPatterns :
                  a < b => allPatterns[a].file <= allPatterns[b].file

\* C10 happens: the read of the second file has completed before the read of
\* the first, and its registrations have been extracted
C10_Witness ==
    /\ pc = "steps"
    /\ Len(stepTexts) = 2
    /\ stepPending = {1}
    /\ Len(stepResults[2]) >= 2

=============================================================================
